---- MODULE Spec2Model ----
(***************************************************************************)
(* State-machine model of the views of the food / weight tracking web      *)
(* application (Web_FInal_Assignment_project/views.py).                    *)
(*                                                                         *)
(* The state is the relational store (User, Food, Image, FoodLog, Weight   *)
(* rows and the auto-increment counters), the browser session, and the     *)
(* request/response pair of the last request served.  Every view is one    *)
(* atomic action: a request is served start to end before the next one.    *)
(***************************************************************************)
EXTENDS Integers, Sequences, FiniteSets, TLC

VARIABLES
    users,      \* User rows      [id, username, password]
    session,    \* id of the user logged in in the session, Anonymous if none
    foods,      \* Food rows      [id, food_name, category]
    images,     \* Image rows     [id, food, image]
    foodlogs,   \* FoodLog rows   [id, user, food_consumed]
    weights,    \* Weight rows    [id, user, weight, entry_date]
    nextId,     \* next primary key of every table (AUTOINCREMENT: never reused)
    last        \* the last request served and the response it got

vars == <<users, session, foods, images, foodlogs, weights, nextId, last>>

db == <<users, foods, images, foodlogs, weights>>

----------------------------------------------------------------------------
(* Bounds of the model *)

MaxUsers == 2
MaxFoods == 2
MaxImages == 3
MaxLogs == 2
MaxWeights == 2
MaxCatalog == 9
MaxToken == 4

(* Inputs the requests are drawn from *)

Anonymous == 0

Usernames == {"", "ann", "bob", "cy"}
Passwords == {"pw"}
PasswordInputs == Passwords \cup {"px"}
FoodNames == {"apple", "rice"}
Categories == {"fruit", "grain"}
CategoryNames == Categories \cup {"nosuch"}
FoodNameInputs == FoodNames \cup {"", "kiwi"}
WeightValues == {"70.5"}
Dates == {"2024-01-01"}
Tables == {"User", "Food", "Image", "FoodLog", "Weight"}

\* an image slot of the formset: empty, populated with a file that does not
\* validate, or populated with a valid file
EmptySlot == ""
BadSlot == "bad.txt"
SlotValues == {EmptySlot, BadSlot, "a.png"}
Slots == [1..2 -> SlotValues]
CategoryOf(food_name) == IF food_name = "apple" THEN "fruit" ELSE "grain"
FoodForms ==
    {[valid |-> v, food_name |-> n, category |-> CategoryOf(n)] :
        v \in BOOLEAN, n \in FoodNames}

\* the page token of the query string: absent, a text, or the text of an integer
Token(kind, s, n) == [kind |-> kind, s |-> s, n |-> n]
AbsentToken == Token("absent", "", 0)
PageTokens ==
    {AbsentToken}
      \cup {Token("text", s, 0) : s \in {"", "abc", "last"}}
      \cup {Token("int", "", n) : n \in -1..MaxToken}

NoArg == [none |-> TRUE]

----------------------------------------------------------------------------
(* Responses *)

Response(view, method, arg, status, to, message, listing, pages, deleted) ==
    [view |-> view, method |-> method, user |-> session, arg |-> arg,
     status |-> status, to |-> to, message |-> message,
     listing |-> listing, pages |-> pages, deleted |-> deleted]

Render(view, method, arg, message, listing, pages) ==
    Response(view, method, arg, "ok", "", message, listing, pages, {})

Redirect(view, method, arg, to, deleted) ==
    Response(view, method, arg, "redirect", to, "", {}, <<>>, deleted)

\* an exception no view catches: the framework answers with an error page
ServerError(view, method, arg) ==
    Response(view, method, arg, "error", "", "", {}, <<>>, {})

NotFound(view, method, arg) ==
    Response(view, method, arg, "404", "", "", {}, <<>>, {})

\* login_required / LoginRequiredMixin / the explicit is_authenticated test
is_authenticated == session # Anonymous

RedirectToLogin(view, method, arg) == Redirect(view, method, arg, "login", {})

----------------------------------------------------------------------------
Init ==
    /\ users = {}
    /\ session = Anonymous
    /\ foods = {}
    /\ images = {}
    /\ foodlogs = {}
    /\ weights = {}
    /\ nextId = [t \in Tables |-> 1]
    /\ last = Render("index", "GET", AbsentToken, "", {}, <<>>)

----------------------------------------------------------------------------
(* register, login_view, logout_view *)

\* mutant: the username column loses its unique constraint
UsernameNeverTaken(username) == FALSE

\* the unique constraint on username: create_user raises IntegrityError
UsernameTaken(username) == \E u \in users : u.username = username

register(method, username, password, confirmation) ==
    LET arg == [username |-> username, password |-> password,
                confirmation |-> confirmation]
    IN
    IF method = "GET" THEN
        /\ last' = Render("register", method, NoArg, "", {}, <<>>)
        /\ UNCHANGED <<users, session, foods, images, foodlogs, weights, nextId>>
    ELSE IF password # confirmation THEN
        /\ last' = Render("register", method, arg, "Passwords must match.", {}, <<>>)
        /\ UNCHANGED <<users, session, foods, images, foodlogs, weights, nextId>>
    ELSE IF username = "" THEN
        \* create_user raises ValueError, which the view does not catch
        /\ last' = ServerError("register", method, arg)
        /\ UNCHANGED <<users, session, foods, images, foodlogs, weights, nextId>>
    ELSE IF UsernameTaken(username) THEN
        \* IntegrityError
        /\ last' = Render("register", method, arg, "Username already taken.", {}, <<>>)
        /\ UNCHANGED <<users, session, foods, images, foodlogs, weights, nextId>>
    ELSE
        /\ nextId["User"] <= MaxUsers
        /\ users' = users \cup {[id |-> nextId["User"], username |-> username,
                                 password |-> password]}
        /\ nextId' = [nextId EXCEPT !["User"] = @ + 1]
        /\ session' = nextId["User"]
        /\ last' = Redirect("register", method, arg, "index", {})
        /\ UNCHANGED <<foods, images, foodlogs, weights>>

authenticate(username, password) ==
    {u \in users : u.username = username /\ u.password = password}

login_view(method, username, password) ==
    LET arg == [username |-> username, password |-> password]
        user == authenticate(username, password)
    IN
    IF method = "GET" THEN
        /\ last' = Render("login", method, NoArg, "", {}, <<>>)
        /\ UNCHANGED <<users, session, foods, images, foodlogs, weights, nextId>>
    ELSE IF user # {} THEN
        /\ session' = (CHOOSE u \in user : TRUE).id
        /\ last' = Redirect("login", method, arg, "index", {})
        /\ UNCHANGED <<users, foods, images, foodlogs, weights, nextId>>
    ELSE
        /\ last' = Render("login", method, arg,
                          "Invalid username and/or password.", {}, <<>>)
        /\ UNCHANGED <<users, session, foods, images, foodlogs, weights, nextId>>

logout_view ==
    /\ session' = Anonymous
    /\ last' = Redirect("logout", "GET", NoArg, "index", {})
    /\ UNCHANGED <<users, foods, images, foodlogs, weights, nextId>>

----------------------------------------------------------------------------
(* django.core.paginator.Paginator, as the views use it *)

paginate_by == 4

Max(a, b) == IF a >= b THEN a ELSE b
Min(a, b) == IF a <= b THEN a ELSE b

\* Paginator.num_pages with orphans = 0 and allow_empty_first_page = True
num_pages(object_list, per_page) ==
    (Max(1, Len(object_list)) + per_page - 1) \div per_page

\* Paginator.validate_number: the exception raised ("" when none) and the number
validate_number(object_list, per_page, token) ==
    IF token.kind = "text" THEN [exc |-> "PageNotAnInteger", number |-> 0]
    ELSE LET number == IF token.kind = "absent" THEN 1 ELSE token.n IN
         IF number < 1 THEN [exc |-> "EmptyPage", number |-> number]
         ELSE IF number > num_pages(object_list, per_page)
              THEN [exc |-> "EmptyPage", number |-> number]
              ELSE [exc |-> "", number |-> number]

\* Paginator.page for a valid number: the slice object_list[bottom:top]
page(object_list, per_page, number) ==
    LET bottom == (number - 1) * per_page
        top == Min(bottom + per_page, Len(object_list))
    IN  SubSeq(object_list, bottom + 1, top)

\* the try / except PageNotAnInteger / except EmptyPage block of both listings
ClampedPageNumber(object_list, per_page, token) ==
    LET v == validate_number(object_list, per_page, token) IN
    IF v.exc = "PageNotAnInteger" THEN 1
    ELSE IF v.exc = "EmptyPage" THEN num_pages(object_list, per_page)
    ELSE v.number

ClampedPage(object_list, per_page, token) ==
    page(object_list, per_page, ClampedPageNumber(object_list, per_page, token))

\* MultipleObjectMixin.paginate_queryset, run by super().get_context_data()
\* because the class sets paginate_by: an invalid page is Http404
ListViewPageValid(object_list, per_page, token) ==
    IF token.kind = "absent" THEN TRUE
    ELSE IF token.kind = "text" THEN token.s \in {"", "last"}
    ELSE validate_number(object_list, per_page, token).exc = ""

----------------------------------------------------------------------------
(* Querysets *)

MinId(rows) == CHOOSE i \in {r.id : r \in rows} : \A r \in rows : i <= r.id

RECURSIVE OrderById(_)
OrderById(rows) ==
    IF rows = {} THEN <<>>
    ELSE LET first == CHOOSE r \in rows : r.id = MinId(rows)
         IN  <<first>> \o OrderById(rows \ {first})

\* food.get_images
get_images(food) == {i \in images : i.food = food.id}

\* food.image = food.get_images.first(): the id of the image, 0 for None
FirstImage(food) ==
    IF get_images(food) = {} THEN 0 ELSE MinId(get_images(food))

WithImage(food) == [food |-> food.id, image |-> FirstImage(food)]

AttachImages(object_list) ==
    [k \in 1..Len(object_list) |-> WithImage(object_list[k])]

----------------------------------------------------------------------------
(* FoodListView (and index, which delegates to it) *)

FoodListView(token) ==
    LET object_list == AttachImages(OrderById(foods)) IN
    /\ last' = IF ListViewPageValid(object_list, paginate_by, token)
               THEN Render("index", "GET", token, "", {},
                           ClampedPage(object_list, paginate_by, token))
               ELSE NotFound("index", "GET", token)
    /\ UNCHANGED <<users, session, foods, images, foodlogs, weights, nextId>>

(* FoodDetailView *)

FoodDetailView(pk) ==
    LET object == {f \in foods : f.id = pk} IN
    /\ last' = IF ~is_authenticated THEN RedirectToLogin("food", "GET", [id |-> pk])
               ELSE IF object = {} THEN NotFound("food", "GET", [id |-> pk])
               ELSE Render("food", "GET", [id |-> pk], "",
                           get_images(CHOOSE f \in object : TRUE), <<>>)
    /\ UNCHANGED <<users, session, foods, images, foodlogs, weights, nextId>>

(* categories_view, category_details_view *)

categories_view ==
    /\ last' = Render("categories", "GET", NoArg, "", Categories, <<>>)
    /\ UNCHANGED <<users, session, foods, images, foodlogs, weights, nextId>>

CategoryPerPage == 4

category_details_view(category_name, token) ==
    LET arg == [category_name |-> category_name, page |-> token]
        object_list ==
            AttachImages(OrderById({f \in foods : f.category = category_name}))
    IN
    /\ last' = IF ~is_authenticated
               THEN RedirectToLogin("category_details", "GET", arg)
               ELSE IF category_name \notin Categories
               THEN ServerError("category_details", "GET", arg)  \* DoesNotExist
               ELSE Render("category_details", "GET", arg, "", {},
                           ClampedPage(object_list, CategoryPerPage, token))
    /\ UNCHANGED <<users, session, foods, images, foodlogs, weights, nextId>>

----------------------------------------------------------------------------
(* FoodAddView *)

\* image_form.is_valid(): every populated slot validates
ImageFormSetValid(slots) == \A k \in 1..2 : slots[k] # BadSlot

\* mutant: the food is saved without asking the image formset
FormsValidFoodOnly(food_form, slots) == food_form.valid

FormsValid(food_form, slots) == food_form.valid /\ ImageFormSetValid(slots)

\* mutant: the loop stops after the first slot
SavedSlotsFirstOnly(slots) ==
    IF slots[1] # EmptySlot THEN <<slots[1]>> ELSE <<>>

\* the slots the loop over image_form.cleaned_data saves, in order
SavedSlots(slots) == SelectSeq(slots, LAMBDA s : s # EmptySlot)

NewImages(new_food, slots) ==
    {[id |-> nextId["Image"] + k - 1, food |-> new_food,
      image |-> SavedSlots(slots)[k]] : k \in 1..Len(SavedSlots(slots))}

FoodAddGet ==
    /\ last' = IF ~is_authenticated THEN RedirectToLogin("food_add", "GET", NoArg)
               ELSE Render("food_add", "GET", NoArg, "", {}, <<>>)
    /\ UNCHANGED <<users, session, foods, images, foodlogs, weights, nextId>>

FoodAddPost(food_form, slots) ==
    LET arg == [food_form |-> food_form, slots |-> slots]
        new_food == nextId["Food"]
    IN
    IF ~is_authenticated THEN
        /\ last' = RedirectToLogin("food_add", "POST", arg)
        /\ UNCHANGED <<users, session, foods, images, foodlogs, weights, nextId>>
    ELSE IF FormsValid(food_form, slots) THEN
        /\ nextId["Food"] <= MaxFoods
        /\ nextId["Image"] + Len(SavedSlots(slots)) - 1 <= MaxImages
        /\ foods' = foods \cup {[id |-> new_food, food_name |-> food_form.food_name,
                                 category |-> food_form.category]}
        /\ images' = images \cup NewImages(new_food, slots)
        /\ nextId' = [nextId EXCEPT !["Food"] = @ + 1,
                                    !["Image"] = @ + Len(SavedSlots(slots))]
        /\ last' = Render("food_add", "POST", arg, "success", {}, <<>>)
        /\ UNCHANGED <<users, session, foodlogs, weights>>
    ELSE
        /\ last' = Render("food_add", "POST", arg, "", {}, <<>>)
        /\ UNCHANGED <<users, session, foods, images, foodlogs, weights, nextId>>

----------------------------------------------------------------------------
(* FoodLogView, FoodLogDeleteView *)

\* mutant: the listing forgets to filter by user
UserFoodLogAll(user) == foodlogs

\* FoodLog.objects.filter(user=request.user)
UserFoodLog(user) == {l \in foodlogs : l.user = user}

FoodLogGet ==
    /\ last' = IF ~is_authenticated
               THEN ServerError("food_log", "GET", NoArg)  \* filter(user=AnonymousUser)
               ELSE Render("food_log", "GET", NoArg, "", UserFoodLog(session), <<>>)
    /\ UNCHANGED <<users, session, foods, images, foodlogs, weights, nextId>>

NewFoodLog(user, food) ==
    [id |-> nextId["FoodLog"], user |-> user, food_consumed |-> food]

FoodLogPost(food_name) ==
    LET arg == [food_consumed |-> food_name]
        found == {f \in foods : f.food_name = food_name}
    IN
    IF food_name = "" THEN
        /\ last' = Redirect("food_log", "POST", arg, "food_log", {})
        /\ UNCHANGED <<users, session, foods, images, foodlogs, weights, nextId>>
    ELSE IF Cardinality(found) # 1 \/ ~is_authenticated THEN
        \* DoesNotExist, MultipleObjectsReturned, or user=AnonymousUser
        /\ last' = ServerError("food_log", "POST", arg)
        /\ UNCHANGED <<users, session, foods, images, foodlogs, weights, nextId>>
    ELSE
        /\ nextId["FoodLog"] <= MaxLogs
        /\ foodlogs' = foodlogs
              \cup {NewFoodLog(session, (CHOOSE f \in found : TRUE).id)}
        /\ nextId' = [nextId EXCEPT !["FoodLog"] = @ + 1]
        /\ last' = Redirect("food_log", "POST", arg, "food_log", {})
        /\ UNCHANGED <<users, session, foods, images, weights>>

\* mutant: food_id is taken for the id of the food consumed
FoodLogByFood(food_id) == {l \in foodlogs : l.food_consumed = food_id}

\* mutant: only the requesting user's own entries are looked up
FoodLogByIdOwned(food_id) == {l \in foodlogs : l.id = food_id /\ l.user = session}

\* FoodLog.objects.filter(id=food_id)
FoodLogById(food_id) == {l \in foodlogs : l.id = food_id}

FoodLogDeleteView(method, food_id) ==
    LET arg == [id |-> food_id]
        food_consumed == FoodLogById(food_id)
    IN
    IF ~is_authenticated THEN
        /\ last' = RedirectToLogin("food_log_delete", method, arg)
        /\ UNCHANGED <<users, session, foods, images, foodlogs, weights, nextId>>
    ELSE IF method = "GET" THEN
        /\ last' = Render("food_log_delete", method, arg, "", {}, <<>>)
        /\ UNCHANGED <<users, session, foods, images, foodlogs, weights, nextId>>
    ELSE
        /\ foodlogs' = IF food_consumed # {} THEN foodlogs \ food_consumed
                       ELSE foodlogs
        /\ last' = Redirect("food_log_delete", method, arg, "food_log", food_consumed)
        /\ UNCHANGED <<users, session, foods, images, weights, nextId>>

----------------------------------------------------------------------------
(* weight_log_view, weight_log_delete *)

\* Weight.objects.filter(user=request.user)
UserWeightLog(user) == {w \in weights : w.user = user}

NewWeight(user, weight, entry_date) ==
    [id |-> nextId["Weight"], user |-> user, weight |-> weight,
     entry_date |-> entry_date]

weight_log_view(method, weight, entry_date) ==
    IF ~is_authenticated THEN
        /\ last' = RedirectToLogin("weight_log", method, NoArg)
        /\ UNCHANGED <<users, session, foods, images, foodlogs, weights, nextId>>
    ELSE IF method = "POST" THEN
        /\ nextId["Weight"] <= MaxWeights
        /\ weights' = weights \cup {NewWeight(session, weight, entry_date)}
        /\ nextId' = [nextId EXCEPT !["Weight"] = @ + 1]
        /\ last' = Render("weight_log", method,
                          [weight |-> weight, date |-> entry_date], "",
                          {w \in weights' : w.user = session}, <<>>)
        /\ UNCHANGED <<users, session, foods, images, foodlogs>>
    ELSE
        /\ last' = Render("weight_log", method, NoArg, "", UserWeightLog(session), <<>>)
        /\ UNCHANGED <<users, session, foods, images, foodlogs, weights, nextId>>

\* mutant: weight_id is taken for the id of the user
WeightByUser(weight_id) == {w \in weights : w.user = weight_id}

\* Weight.objects.filter(id=weight_id)
WeightById(weight_id) == {w \in weights : w.id = weight_id}

weight_log_delete(method, weight_id) ==
    LET arg == [id |-> weight_id]
        weight_recorded == WeightById(weight_id)
    IN
    IF ~is_authenticated THEN
        /\ last' = RedirectToLogin("weight_log_delete", method, arg)
        /\ UNCHANGED <<users, session, foods, images, foodlogs, weights, nextId>>
    ELSE IF method = "POST" THEN
        /\ weights' = weights \ weight_recorded
        /\ last' = Redirect("weight_log_delete", method, arg, "weight_log",
                            weight_recorded)
        /\ UNCHANGED <<users, session, foods, images, foodlogs, nextId>>
    ELSE
        /\ last' = Render("weight_log_delete", method, arg, "", {}, <<>>)
        /\ UNCHANGED <<users, session, foods, images, foodlogs, weights, nextId>>

----------------------------------------------------------------------------
(* The requests *)

Methods == {"GET", "POST"}

AuthRequest ==
    \/ \E m \in Methods, u \in Usernames, p \in Passwords, c \in PasswordInputs :
          register(m, u, p, c)
    \/ \E m \in Methods, u \in Usernames, p \in PasswordInputs :
          login_view(m, u, p)
    \/ logout_view

SessionRequest ==
    \/ \E u \in Usernames, p \in PasswordInputs : login_view("POST", u, p)
    \/ logout_view

ListingRequest ==
    \/ \E t \in PageTokens : FoodListView(t)
    \/ categories_view
    \/ \E c \in CategoryNames, t \in PageTokens : category_details_view(c, t)

FoodRequest ==
    \/ \E pk \in 1..MaxFoods : FoodDetailView(pk)
    \/ FoodAddGet
    \/ \E f \in FoodForms, s \in Slots : FoodAddPost(f, s)

LogRequest ==
    \/ FoodLogGet
    \/ \E n \in FoodNameInputs : FoodLogPost(n)
    \/ \E m \in Methods, i \in 1..MaxLogs : FoodLogDeleteView(m, i)
    \/ \E m \in Methods, w \in WeightValues, d \in Dates : weight_log_view(m, w, d)
    \/ \E m \in Methods, i \in 1..MaxWeights : weight_log_delete(m, i)

(* The whole application, from the empty store *)

Next == AuthRequest \/ ListingRequest \/ FoodRequest \/ LogRequest

Spec == Init /\ [][Next]_vars

----------------------------------------------------------------------------
(* The application restricted to one feature's requests.  The feature       *)
(* specifications other than SpecAuth start from a store that earlier       *)
(* requests have filled: register("ann"), register("bob"), logout, and      *)
(* FoodAddView.post for every Food and Image row.                           *)

SeedUsers == {[id |-> 1, username |-> "ann", password |-> "pw"],
              [id |-> 2, username |-> "bob", password |-> "pw"]}

Food(id, food_name) ==
    [id |-> id, food_name |-> food_name, category |-> CategoryOf(food_name)]

\* apple and rice; and the same with a second Food row named rice
SeedCatalogs == {{Food(1, "apple"), Food(2, "rice")},
                 {Food(1, "apple"), Food(2, "rice"), Food(3, "rice")}}

\* n foods, the first k of them fruit
Catalog(n, k) == {Food(i, IF i <= k THEN "apple" ELSE "rice") : i \in 1..n}

\* no image at all, or two images for every second food
CatalogImages(n, with) ==
    IF with
    THEN {[id |-> i, food |-> 2 * ((i + 1) \div 2), image |-> "a.png"] :
              i \in 1..(2 * (n \div 2))}
    ELSE {}

Seeded(food_rows, image_rows) ==
    /\ users = SeedUsers
    /\ session = Anonymous
    /\ foods = food_rows
    /\ images = image_rows
    /\ foodlogs = {}
    /\ weights = {}
    /\ nextId = [t \in Tables |->
                    CASE t = "User" -> Cardinality(SeedUsers) + 1
                      [] t = "Food" -> Cardinality(food_rows) + 1
                      [] t = "Image" -> Cardinality(image_rows) + 1
                      [] OTHER -> 1]
    /\ last = Redirect("logout", "GET", NoArg, "index", {})

NextAuth == AuthRequest
SpecAuth == Init /\ [][NextAuth]_vars

InitFood == Seeded({}, {})
NextFood == SessionRequest \/ FoodRequest
SpecFood == InitFood /\ [][NextFood]_vars

InitLog == \E c \in SeedCatalogs : Seeded(c, {})
NextLog == SessionRequest \/ LogRequest
SpecLog == InitLog /\ [][NextLog]_vars

InitPage ==
    \E n \in 0..MaxCatalog, k \in 0..MaxCatalog, with \in BOOLEAN :
        k <= n /\ Seeded(Catalog(n, k), CatalogImages(n, with))
NextPage == SessionRequest \/ ListingRequest
SpecPage == InitPage /\ [][NextPage]_vars

----------------------------------------------------------------------------
(* Properties *)

UserIds == {u.id : u \in users}

IsRequest(r, view, method) == r.view = view /\ r.method = method

\* C1: a food_add POST whose food form or any populated image slot fails
\* validation leaves the sets of Food and Image rows unchanged.
FoodAddAllOrNothing ==
    [][(/\ IsRequest(last', "food_add", "POST")
        /\ \/ ~last'.arg.food_form.valid
           \/ \E k \in 1..2 : last'.arg.slots[k] = BadSlot)
       => (foods' = foods /\ images' = images)]_vars

\* C1 witness: an authenticated submission with a valid food form, a valid
\* first image and an invalid second image was re-rendered, after an earlier
\* submission had been saved.
FoodAddRejectedWitness ==
    /\ IsRequest(last, "food_add", "POST")
    /\ last.user # Anonymous
    /\ last.arg.food_form.valid
    /\ last.arg.slots[1] = "a.png"
    /\ last.arg.slots[2] = BadSlot
    /\ last.status = "ok" /\ last.message = ""
    /\ foods # {}

\* C2: a food_add POST by an authenticated user with a valid food form and no
\* invalid slot adds exactly one Food row, holding the submitted fields, and
\* exactly one Image row per populated slot, each referencing the new Food.
FoodAddPersists ==
    [][(/\ IsRequest(last', "food_add", "POST")
        /\ last'.user # Anonymous
        /\ last'.arg.food_form.valid
        /\ \A k \in 1..2 : last'.arg.slots[k] # BadSlot)
       => LET populated == {k \in 1..2 : last'.arg.slots[k] # EmptySlot}
              new_foods == foods' \ foods
              new_images == images' \ images
          IN  /\ foods \subseteq foods'
              /\ images \subseteq images'
              /\ Cardinality(new_foods) = 1
              /\ \A f \in new_foods :
                    /\ f.food_name = last'.arg.food_form.food_name
                    /\ f.category = last'.arg.food_form.category
              /\ Cardinality(new_images) = Cardinality(populated)
              /\ \A i \in new_images : \E f \in new_foods : i.food = f.id
              /\ last'.message = "success"]_vars

\* C2 witness: a submission with only the second slot populated was saved as
\* one food with one image, after an earlier food had been saved.
FoodAddSavedWitness ==
    /\ IsRequest(last, "food_add", "POST")
    /\ last.message = "success"
    /\ last.arg.slots[1] = EmptySlot
    /\ last.arg.slots[2] = "a.png"
    /\ Cardinality(foods) = 2
    /\ \E i \in images : i.food = nextId["Food"] - 1

\* C5: a food_log POST by user U naming a food F adds exactly one FoodLog row,
\* of U and F; U's listing is what it was plus that row and no other user's
\* listing changes.
FoodLogAppend ==
    [][(/\ IsRequest(last', "food_log", "POST")
        /\ last'.user # Anonymous
        /\ Cardinality({f \in foods : f.food_name = last'.arg.food_consumed}) = 1)
       => \E new \in foodlogs' :
             /\ new \notin foodlogs
             /\ foodlogs' = foodlogs \cup {new}
             /\ new.user = last'.user
             /\ \E f \in foods : /\ f.id = new.food_consumed
                                 /\ f.food_name = last'.arg.food_consumed
             /\ \A U \in UserIds :
                   (UserFoodLog(U))' = IF U = new.user
                                       THEN UserFoodLog(U) \cup {new}
                                       ELSE UserFoodLog(U)]_vars

\* C5 witness: a user just logged a food, and another user holds an entry too.
FoodLogAppendWitness ==
    /\ IsRequest(last, "food_log", "POST")
    /\ last.status = "redirect"
    /\ \E l \in foodlogs : l.user = last.user /\ l.id = nextId["FoodLog"] - 1
    /\ \E l \in foodlogs : l.user # last.user

\* C6: a food_log_delete POST with id i removes exactly the FoodLog row of id
\* i, changes no other row of any table, and ends in the redirect to food_log,
\* also when no row has id i.
FoodLogDeleteExact ==
    [][(/\ IsRequest(last', "food_log_delete", "POST")
        /\ last'.user # Anonymous)
       => /\ foodlogs' = {l \in foodlogs : l.id # last'.arg.id}
          /\ last'.status = "redirect" /\ last'.to = "food_log"
          /\ UNCHANGED <<users, foods, images, weights>>]_vars

\* C6 witness: a row was deleted and a row of another id is still there.
FoodLogDeleteWitness ==
    /\ IsRequest(last, "food_log_delete", "POST")
    /\ last.deleted # {}
    /\ foodlogs # {}
    /\ \A l \in foodlogs : l.id # last.arg.id

\* C7, as claimed: at most one User row per username, and every register POST
\* with a taken username ends with 'Username already taken.', creates no row
\* and leaves the session alone.
UniqueUsernames ==
    \A u, v \in users : u.username = v.username => u = v

RegisterTakenAlwaysSaysTaken ==
    [][/\ UniqueUsernames'
       /\ (/\ IsRequest(last', "register", "POST")
           /\ \E u \in users : u.username = last'.arg.username)
          => /\ last'.message = "Username already taken."
             /\ users' = users
             /\ session' = session]_vars

\* C7, amended: at most one User row per username; every register POST with a
\* taken username creates no row and leaves the session alone, and ends with
\* 'Username already taken.' when its password matches its confirmation.
RegisterTaken ==
    [][/\ UniqueUsernames'
       /\ (/\ IsRequest(last', "register", "POST")
           /\ \E u \in users : u.username = last'.arg.username)
          => /\ last'.status = "ok"
             /\ users' = users
             /\ session' = session
             /\ last'.arg.password = last'.arg.confirmation
                   => last'.message = "Username already taken."]_vars

\* C7 witness: a second registration of a taken username was answered with the
\* message, with two users registered.
RegisterTakenWitness ==
    /\ IsRequest(last, "register", "POST")
    /\ last.message = "Username already taken."
    /\ \E u \in users : u.username = last.arg.username
    /\ Cardinality(users) = 2

\* C8: a weight_log POST by user U adds a row of U with the posted weight and
\* date, and the listing it renders is U's entries, the new one among them; a
\* weight_log_delete POST with an id leaves no entry of that id in U's
\* listing, which is empty when that was U's only entry.
WeightRoundTrip ==
    [][\A U \in UserIds :
        /\ (IsRequest(last', "weight_log", "POST") /\ last'.user = U)
           => /\ last'.listing = (UserWeightLog(U))'
              /\ \E w \in last'.listing :
                    /\ w \notin weights
                    /\ w.user = U
                    /\ w.weight = last'.arg.weight
                    /\ w.entry_date = last'.arg.date
        /\ (IsRequest(last', "weight_log", "GET") /\ last'.user = U)
           => last'.listing = UserWeightLog(U)
        /\ (IsRequest(last', "weight_log_delete", "POST") /\ last'.user = U)
           => /\ \A w \in (UserWeightLog(U))' : w.id # last'.arg.id
              /\ (\A w \in UserWeightLog(U) : w.id = last'.arg.id)
                    => (UserWeightLog(U))' = {}
              /\ (UserWeightLog(U))' \subseteq UserWeightLog(U)]_vars

\* C8 witness: the user deleted the entry they had posted, their only one, and
\* their listing is empty.
WeightRoundTripWitness ==
    /\ IsRequest(last, "weight_log_delete", "POST")
    /\ \E w \in last.deleted : w.user = last.user /\ w.id = last.arg.id
    /\ UserWeightLog(last.user) = {}

\* C10: a delete POST by an authenticated user V with the id of a FoodLog or
\* Weight row owned by another user U removes that row.
DeleteIgnoresOwner ==
    [][(last'.method = "POST" /\ last'.user # Anonymous)
       => /\ last'.view = "food_log_delete"
             => \A l \in foodlogs :
                   (l.id = last'.arg.id /\ l.user # last'.user)
                      => l \notin foodlogs'
          /\ last'.view = "weight_log_delete"
             => \A w \in weights :
                   (w.id = last'.arg.id /\ w.user # last'.user)
                      => w \notin weights']_vars

\* C10 witness: the entry a food_log_delete POST removed belonged to a user
\* other than the requester.
DeletedByOtherWitness ==
    /\ IsRequest(last, "food_log_delete", "POST")
    /\ last.user # Anonymous
    /\ \E l \in last.deleted : l.user # last.user /\ l \notin foodlogs

\* C9, as claimed: an unauthenticated request to a protected route is
\* redirected to login and changes no row.
ProtectedViews ==
    {"food", "food_add", "food_log", "food_log_delete", "weight_log",
     "weight_log_delete", "category_details"}

UnauthenticatedRedirected ==
    [][(last'.view \in ProtectedViews /\ last'.user = Anonymous)
       => /\ last'.status = "redirect" /\ last'.to = "login"
          /\ UNCHANGED db]_vars

\* The listing a page token is applied to: all foods for the index, the
\* foods of the category for category_details.
ListedFoods(r) ==
    IF r.view = "index" THEN AttachImages(OrderById(foods))
    ELSE AttachImages(OrderById({f \in foods : f.category = r.arg.category_name}))

PageTokenOf(r) == IF r.view = "index" THEN r.arg ELSE r.arg.page

\* a listing request that gets as far as the pagination
IsListing(r) ==
    \/ r.view = "index"
    \/ /\ r.view = "category_details"
       /\ r.user # Anonymous
       /\ r.arg.category_name \in Categories

\* C3, as claimed: for a page token greater than the number of pages both
\* listings answer with the items of the last page.
BeyondLastPageClamps ==
    (/\ IsListing(last)
     /\ PageTokenOf(last).kind = "int"
     /\ PageTokenOf(last).n > num_pages(ListedFoods(last), 4))
    => /\ last.status = "ok"
       /\ last.pages = page(ListedFoods(last), 4, num_pages(ListedFoods(last), 4))

\* C4, as claimed: for an absent or non-numeric page token both listings
\* answer with page 1, the first 4 items.
BadTokenIsFirstPage ==
    (/\ IsListing(last)
     /\ PageTokenOf(last).kind \in {"absent", "text"})
    => /\ last.status = "ok"
       /\ last.pages = SubSeq(ListedFoods(last), 1, Min(4, Len(ListedFoods(last))))

====
